---- MODULE Spec2Model ----
(***************************************************************************)
(* Model of the lint scripts of kubernetes-azure (scripts/*.py).           *)
(*                                                                         *)
(* A text is a sequence of one-character strings; "\n" is the line         *)
(* terminator.  Every string function of the scripts (split, join, strip,  *)
(* startswith, the regular expressions) is an operator on such sequences,  *)
(* computed the way Python computes it.                                    *)
(***************************************************************************)
EXTENDS Integers, Sequences, FiniteSets, TLC

\* ------------------------------------------------------------ characters

NL == "\n"

\* The characters str.strip()/rstrip() without argument remove, and regex \s
\* (the whitespace of the model's alphabet).
Whitespace == {" ", "\t", "\n"}

Digits == {"0", "1", "2", "3", "4", "5", "6", "7", "8", "9"}

\* Regex \w and the characters \b tells apart from the rest.
WordChars ==
    Digits \cup {"_"} \cup
    {"a", "b", "c", "d", "e", "f", "g", "h", "i", "j", "k", "l", "m", "n", "o", "p",
     "q", "r", "s", "t", "u", "v", "w", "x", "y", "z"} \cup
    {"A", "B", "C", "D", "E", "F", "G", "H", "I", "J", "K", "L", "M", "N", "O", "P",
     "Q", "R", "S", "T", "U", "V", "W", "X", "Y", "Z"}

\* ------------------------------------------------------- string helpers

SetMax(S) == CHOOSE m \in S : \A k \in S : k <= m

SetMin(S) == CHOOSE m \in S : \A k \in S : m <= k

Last(s) == s[Len(s)]

\* s.rstrip(cs)
RStripSet(s, cs) ==
    LET keep == {i \in 1..Len(s) : s[i] \notin cs}
    IN IF keep = {} THEN <<>> ELSE SubSeq(s, 1, SetMax(keep))

\* s.lstrip(cs)
LStripSet(s, cs) ==
    LET keep == {i \in 1..Len(s) : s[i] \notin cs}
    IN IF keep = {} THEN <<>> ELSE SubSeq(s, SetMin(keep), Len(s))

\* s.rstrip()
RStrip(s) == RStripSet(s, Whitespace)

\* s.strip()
Strip(s) == LStripSet(RStripSet(s, Whitespace), Whitespace)

\* s.rstrip('\n')
RStripNL(s) == RStripSet(s, {NL})

\* s.startswith(p)
StartsWith(s, p) == Len(s) >= Len(p) /\ SubSeq(s, 1, Len(p)) = p

\* s.endswith(p)
EndsWith(s, p) == Len(s) >= Len(p) /\ SubSeq(s, Len(s) - Len(p) + 1, Len(s)) = p

\* s[p:].startswith(q), p 1-based
StartsAt(s, p, q) == p + Len(q) - 1 <= Len(s) /\ SubSeq(s, p, p + Len(q) - 1) = q

\* q in s
Contains(s, q) == \E p \in 1..Len(s) : StartsAt(s, p, q)

\* s.split('\n')
RECURSIVE Split(_)
Split(s) ==
    LET nl == {i \in 1..Len(s) : s[i] = NL}
    IN IF nl = {} THEN <<s>>
       ELSE LET k == SetMin(nl)
            IN <<SubSeq(s, 1, k - 1)>> \o Split(SubSeq(s, k + 1, Len(s)))

\* '\n'.join(lines)
RECURSIVE Join(_)
Join(lines) ==
    IF lines = <<>> THEN <<>>
    ELSE IF Len(lines) = 1 THEN lines[1]
    ELSE lines[1] \o <<NL>> \o Join(Tail(lines))

\* f.readlines(): the lines with their terminators kept
RECURSIVE ReadLines(_)
ReadLines(s) ==
    LET nl == {i \in 1..Len(s) : s[i] = NL}
    IN IF s = <<>> THEN <<>>
       ELSE IF nl = {} THEN <<s>>
       ELSE LET k == SetMin(nl)
            IN <<SubSeq(s, 1, k)>> \o ReadLines(SubSeq(s, k + 1, Len(s)))

\* [f(line) for line in lines]
RStripAll(lines) == [i \in 1..Len(lines) |-> RStrip(lines[i])]

Hash == <<"#">>

\* The backquote character (SANY does not lex it inside a string).
BQ == "bq"

Fence == <<BQ, BQ, BQ>>

FenceText == <<BQ, BQ, BQ, "t", "e", "x", "t">>

Http == <<"h", "t", "t", "p">>

SchemeHttp == <<"h", "t", "t", "p", ":", "/", "/">>

SchemeHttps == <<"h", "t", "t", "p", "s", ":", "/", "/">>

\* ------------------------------------------------- fix-markdown.py

\* line.strip().startswith('#') and ' ' in line
IsHeadingFix(line) == StartsWith(Strip(line), Hash) /\ Contains(line, <<" ">>)

RECURSIVE HeadingsLoop(_, _, _)
HeadingsLoop(lines, i, result) ==
    IF i > Len(lines) THEN result
    ELSE LET line == lines[i]
             is_heading == IsHeadingFix(line)
             prev_line == IF i > 1 THEN lines[i - 1] ELSE <<>>
             next_line == IF i < Len(lines) THEN lines[i + 1] ELSE <<>>
             r1 == IF /\ is_heading
                      /\ i > 1
                      /\ Strip(prev_line) # <<>>
                      /\ ~StartsWith(Strip(prev_line), Hash)
                      /\ result # <<>>
                      /\ Last(result) # <<>>
                   THEN Append(result, <<>>) ELSE result
             r2 == Append(r1, line)
             r3 == IF /\ is_heading
                      /\ i < Len(lines)
                      /\ Strip(next_line) # <<>>
                      /\ ~StartsWith(Strip(next_line), Hash)
                      /\ Strip(next_line) # <<>>
                      /\ ~StartsWith(next_line, Fence)
                   THEN Append(r2, <<>>) ELSE r2
         IN HeadingsLoop(lines, i + 1, r3)

fix_blank_lines_around_headings(content) ==
    Join(HeadingsLoop(Split(content), 1, <<>>))

\* line.strip().startswith(Fence)
IsFenceFix(line) == StartsWith(Strip(line), Fence)

\* FencesLoop with the blank line before an opening fence inserted without
\* the test of the last result line
RECURSIVE FencesLoop_no_result_test(_, _, _, _)
FencesLoop_no_result_test(lines, i, result, in_fence) ==
    IF i > Len(lines) THEN result
    ELSE LET line == lines[i]
             is_fence == IsFenceFix(line)
             prev_line == IF i > 1 THEN lines[i - 1] ELSE <<>>
             next_line == IF i < Len(lines) THEN lines[i + 1] ELSE <<>>
             opened == IF i > 1 /\ Strip(prev_line) # <<>>
                       THEN Append(Append(result, <<>>), line)
                       ELSE Append(result, line)
             closed == IF i < Len(lines) /\ Strip(next_line) # <<>>
                       THEN Append(Append(result, line), <<>>)
                       ELSE Append(result, line)
         IN IF is_fence
            THEN IF ~in_fence
                 THEN FencesLoop_no_result_test(lines, i + 1, opened, TRUE)
                 ELSE FencesLoop_no_result_test(lines, i + 1, closed, FALSE)
            ELSE FencesLoop_no_result_test(lines, i + 1, Append(result, line),
                                           in_fence)

\* The loop of fix_blank_lines_around_fences: opened is the result after an
\* opening fence, closed the result after a closing one.
RECURSIVE FencesLoop(_, _, _, _)
FencesLoop(lines, i, result, in_fence) ==
    IF i > Len(lines) THEN result
    ELSE LET line == lines[i]
             is_fence == IsFenceFix(line)
             prev_line == IF i > 1 THEN lines[i - 1] ELSE <<>>
             next_line == IF i < Len(lines) THEN lines[i + 1] ELSE <<>>
             opened == IF /\ i > 1
                          /\ Strip(prev_line) # <<>>
                          /\ result # <<>>
                          /\ Last(result) # <<>>
                       THEN Append(Append(result, <<>>), line)
                       ELSE Append(result, line)
             closed == IF i < Len(lines) /\ Strip(next_line) # <<>>
                       THEN Append(Append(result, line), <<>>)
                       ELSE Append(result, line)
         IN IF is_fence
            THEN IF ~in_fence
                 THEN FencesLoop(lines, i + 1, opened, TRUE)
                 ELSE FencesLoop(lines, i + 1, closed, FALSE)
            ELSE FencesLoop(lines, i + 1, Append(result, line), in_fence)

fix_blank_lines_around_fences(content) ==
    Join(FencesLoop(Split(content), 1, <<>>, FALSE))

\* list_pattern.match(line) with list_pattern = ^(\s*)[-*]|\d+\.\s
ListPatternMatch(line) ==
    LET body == LStripSet(line, Whitespace)
        nondigit == {i \in 1..Len(line) : line[i] \notin Digits}
        d == IF nondigit = {} THEN Len(line) ELSE SetMin(nondigit) - 1
    IN \/ (body # <<>> /\ body[1] \in {"-", "*"})
       \/ (d >= 1 /\ Len(line) >= d + 2 /\ line[d + 1] = "." /\ line[d + 2] \in Whitespace)

RECURSIVE ListsLoop(_, _, _, _)
ListsLoop(lines, i, result, in_list) ==
    IF i > Len(lines) THEN result
    ELSE LET line == lines[i]
             is_list == ListPatternMatch(line)
             prev_line == IF i > 1 THEN lines[i - 1] ELSE <<>>
             starting == is_list /\ ~in_list
             ending == ~is_list /\ in_list
             r1 == IF starting
                   THEN IF /\ i > 1
                           /\ Strip(prev_line) # <<>>
                           /\ ~ListPatternMatch(prev_line)
                           /\ result # <<>>
                           /\ Last(result) # <<>>
                        THEN Append(result, <<>>) ELSE result
                   ELSE IF ending
                   THEN IF Strip(line) # <<>> /\ result # <<>> /\ Last(result) # <<>>
                        THEN Append(result, <<>>) ELSE result
                   ELSE result
             in_list2 == IF starting THEN TRUE ELSE IF ending THEN FALSE ELSE in_list
         IN ListsLoop(lines, i + 1, Append(r1, line), in_list2)

fix_blank_lines_around_lists(content) ==
    Join(ListsLoop(Split(content), 1, <<>>, FALSE))

fix_trailing_spaces(content) == Join(RStripAll(Split(content)))

\* fix_eof_newline without its rstrip: a terminator is appended to whatever
\* the content ends with.
fix_eof_newline_append_only(content) == content \o <<NL>>

fix_eof_newline(content) == RStripNL(content) \o <<NL>>

\* The fixes process_markdown_file applies, in its order (lines 152-158).
FixMarkdown(content) ==
    fix_eof_newline(
      fix_blank_lines_around_lists(
        fix_blank_lines_around_fences(
          fix_blank_lines_around_headings(
            fix_trailing_spaces(content)))))

\* ------------------------------------------------- fix-markdown-v2.py

RECURSIVE CodeFenceLoop(_, _, _, _)
CodeFenceLoop(lines, i, result, in_fence) ==
    IF i > Len(lines) THEN result
    ELSE LET line == lines[i]
             is_fence == StartsWith(Strip(line), Fence)
             prev_line == IF i > 1 THEN lines[i - 1] ELSE <<>>
             next_line == IF i < Len(lines) THEN lines[i + 1] ELSE <<>>
             before == IF /\ i > 1
                          /\ Strip(prev_line) # <<>>
                          /\ result # <<>>
                          /\ Last(result) # <<>>
                       THEN Append(result, <<>>) ELSE result
             opened == IF Strip(line) = Fence
                       THEN Append(before, FenceText)
                       ELSE Append(before, line)
             closed == IF i < Len(lines) /\ Strip(next_line) # <<>>
                       THEN Append(Append(result, line), <<>>)
                       ELSE Append(result, line)
         IN IF is_fence
            THEN IF ~in_fence
                 THEN CodeFenceLoop(lines, i + 1, opened, TRUE)
                 ELSE CodeFenceLoop(lines, i + 1, closed, FALSE)
            ELSE CodeFenceLoop(lines, i + 1, Append(result, line), in_fence)

fix_code_fence_blanks(content) ==
    Join(CodeFenceLoop(Split(content), 1, <<>>, FALSE))

\* The length of the match of
\*   (?<![behind]) [\b] (https?://[^excl]+) (?![ahead])
\* at position p of s, 0 when there is none.  The body is the longest run of
\* characters outside excl; the regex gives characters back until the one
\* that follows is outside ahead.
UrlMatchLen(s, p, behind, wordBoundary, excl, ahead) ==
    LET sl == IF StartsAt(s, p, SchemeHttps) THEN 8
              ELSE IF StartsAt(s, p, SchemeHttp) THEN 7 ELSE 0
        from == p + sl
        stops == {i \in from..Len(s) : s[i] \in excl}
        run == IF stops = {} THEN Len(s) - from + 1 ELSE SetMin(stops) - from
        ok == {k \in 1..run : from + k > Len(s) \/ s[from + k] \notin ahead}
    IN IF \/ sl = 0
          \/ (p > 1 /\ s[p - 1] \in behind)
          \/ (wordBoundary /\ p > 1 /\ s[p - 1] \in WordChars)
          \/ ok = {}
       THEN 0
       ELSE sl + SetMax(ok)

\* re.sub(pattern, r'<\1>', line) with the pattern of wrap_bare_urls_careful:
\*   (?<![(<\[])\b(https?://[^\s\)<>\]]+)(?![>\)\]])
RECURSIVE WrapSub(_, _)
WrapSub(line, p) ==
    IF p > Len(line) THEN <<>>
    ELSE LET n == UrlMatchLen(line, p, {"(", "<", "["}, TRUE,
                              Whitespace \cup {")", "<", ">", "]"}, {">", ")", "]"})
         IN IF n > 0
            THEN <<"<">> \o SubSeq(line, p, p + n - 1) \o <<">">> \o WrapSub(line, p + n)
            ELSE <<line[p]>> \o WrapSub(line, p + 1)

\* WrapLine without its test for markdown link syntax.
WrapLine_no_link_test(line) ==
    IF StartsWith(Strip(line), <<"-", " ">>) /\ Contains(line, Http) THEN line
    ELSE WrapSub(line, 1)

\* What wrap_bare_urls_careful appends for a line outside a code block.
WrapLine(line) ==
    IF Contains(line, <<"[">>) /\ Contains(line, <<"]", "(">>) THEN line
    ELSE IF StartsWith(Strip(line), <<"-", " ">>) /\ Contains(line, Http) THEN line
    ELSE WrapSub(line, 1)

RECURSIVE WrapLoop(_, _, _, _)
WrapLoop(lines, i, result, in_code_block) ==
    IF i > Len(lines) THEN result
    ELSE LET line == lines[i]
         IN IF StartsWith(Strip(line), Fence)
            THEN WrapLoop(lines, i + 1, Append(result, line), ~in_code_block)
            ELSE IF in_code_block
            THEN WrapLoop(lines, i + 1, Append(result, line), in_code_block)
            ELSE WrapLoop(lines, i + 1, Append(result, WrapLine(line)), in_code_block)

wrap_bare_urls_careful(content) ==
    Join(WrapLoop(Split(content), 1, <<>>, FALSE))

\* The fixes process_file of fix-markdown-v2.py applies (lines 138-147).
FixMarkdownV2(content) ==
    LET eof == RStrip(content) \o <<NL>>
        stripped == Join(RStripAll(Split(eof)))
    IN wrap_bare_urls_careful(fix_code_fence_blanks(stripped))

\* ------------------------------------------------- check-markdown.py

Issue(ln, rule, msg, n, url) ==
    [line |-> ln, rule |-> rule, msg |-> msg, n |-> n, url |-> url]

MaxLineLength == 120

UrlShown == 50

\* re.findall(r'(?<![(<])(https?://[^\s\)>]+)(?![>)])', line) from position p
RECURSIVE BareUrls(_, _)
BareUrls(line, p) ==
    IF p > Len(line) THEN <<>>
    ELSE LET n == UrlMatchLen(line, p, {"(", "<"}, FALSE,
                              Whitespace \cup {")", ">"}, {">", ")"})
         IN IF n > 0
            THEN <<SubSeq(line, p, p + n - 1)>> \o BareUrls(line, p + n)
            ELSE BareUrls(line, p + 1)

\* "spaces not in [2]" with the 2 taken for every count up to 2.
TrailingReported_above_two(spaces) == spaces > 2

\* spaces not in [2]: two trailing characters are a line break
TrailingReported(spaces) == spaces \notin {2}

\* The issues check_file appends for line i (1-based, as enumerate(lines, 1)),
\* in_code_block being the flag before the line and icb the flag after it.
LineIssues(lines, i, in_code_block, prev_line) ==
    LET line == lines[i]
        line_rstrip == RStripNL(line)
        is_fence == StartsWith(line_rstrip, Fence)
        icb == IF is_fence THEN ~in_code_block ELSE in_code_block
        next_line == IF i < Len(lines) THEN lines[i + 1] ELSE <<>>
        md040 == IF is_fence /\ ~icb /\ line_rstrip = Fence
                 THEN <<Issue(i, "MD040", "Code fence without language", 0, <<>>)>>
                 ELSE <<>>
        md031b == IF /\ is_fence
                     /\ ~icb
                     /\ Strip(prev_line) # <<>>
                     /\ i > 1
                     /\ ~StartsWith(prev_line, Hash)
                  THEN <<Issue(i, "MD031", "Missing blank line before code fence", 0, <<>>)>>
                  ELSE <<>>
        md031a == IF /\ is_fence
                     /\ icb
                     /\ i < Len(lines)
                     /\ Strip(next_line) # <<>>
                  THEN <<Issue(i, "MD031", "Missing blank line after code fence", 0, <<>>)>>
                  ELSE <<>>
        is_heading == StartsWith(line_rstrip, Hash) /\ Contains(line_rstrip, <<" ">>)
        md022b == IF is_heading /\ i > 1 /\ Strip(prev_line) # <<>>
                  THEN <<Issue(i, "MD022", "Missing blank line before heading", 0, <<>>)>>
                  ELSE <<>>
        md022a == IF /\ is_heading
                     /\ i < Len(lines)
                     /\ Strip(next_line) # <<>>
                     /\ ~StartsWith(next_line, Hash)
                  THEN <<Issue(i, "MD022", "Missing blank line after heading", 0, <<>>)>>
                  ELSE <<>>
        spaces == Len(line_rstrip) - Len(RStrip(line_rstrip))
        md009 == IF line_rstrip # RStrip(line_rstrip) /\ TrailingReported(spaces)
                 THEN <<Issue(i, "MD009", "Trailing spaces", spaces, <<>>)>>
                 ELSE <<>>
        md013 == IF /\ Len(line_rstrip) > MaxLineLength
                    /\ ~icb
                    /\ ~StartsWith(line_rstrip, Http)
                 THEN <<Issue(i, "MD013", "Line too long", Len(line_rstrip), <<>>)>>
                 ELSE <<>>
        urls == IF ~icb THEN BareUrls(line, 1) ELSE <<>>
        md034 == [k \in 1..Len(urls) |->
                    Issue(i, "MD034", "Bare URL", 0,
                          SubSeq(urls[k], 1, IF Len(urls[k]) < UrlShown
                                             THEN Len(urls[k]) ELSE UrlShown))]
    IN md040 \o md031b \o md031a \o md022b \o md022a \o md009 \o md013 \o md034

RECURSIVE CheckLoop(_, _, _, _, _)
CheckLoop(lines, i, issues, in_code_block, prev_line) ==
    IF i > Len(lines) THEN issues
    ELSE LET line_rstrip == RStripNL(lines[i])
             icb == IF StartsWith(line_rstrip, Fence)
                    THEN ~in_code_block ELSE in_code_block
         IN CheckLoop(lines, i + 1,
                      issues \o LineIssues(lines, i, in_code_block, prev_line),
                      icb, line_rstrip)

\* The EOF check of check_file (lines 72-76); line 0 stands for "EOF".
EofIssues(lines) ==
    IF lines # <<>> /\ EndsWith(Last(lines), <<NL, NL>>)
    THEN <<Issue(0, "MD047", "Multiple trailing newlines", 0, <<>>)>>
    ELSE IF lines # <<>> /\ ~EndsWith(Last(lines), <<NL>>)
    THEN <<Issue(0, "MD047", "Missing trailing newline", 0, <<>>)>>
    ELSE <<>>

\* check_file on a file holding content
check_file(content) ==
    LET lines == ReadLines(content)
    IN CheckLoop(lines, 1, <<>>, FALSE, <<>>) \o EofIssues(lines)

\* ------------------------------------------------- fix-ansible-yaml.py

AnsibleBuiltin ==
    <<"a", "n", "s", "i", "b", "l", "e", ".", "b", "u", "i", "l", "t", "i", "n", ".">>

CommunityGeneral ==
    <<"c", "o", "m", "m", "u", "n", "i", "t", "y", ".",
      "g", "e", "n", "e", "r", "a", "l", ".">>

AnsiblePosix == <<"a", "n", "s", "i", "b", "l", "e", ".", "p", "o", "s", "i", "x", ".">>

\* short name, fully-qualified name, in the dictionary's order
FQCN_MAPPINGS ==
    <<
       <<<<"a", "p", "t">>, AnsibleBuiltin \o <<"a", "p", "t">>>>,
       <<<<"c", "o", "p", "y">>, AnsibleBuiltin \o <<"c", "o", "p", "y">>>>,
       <<<<"f", "e", "t", "c", "h">>, AnsibleBuiltin \o <<"f", "e", "t", "c", "h">>>>,
       <<<<"f", "i", "l", "e">>, AnsibleBuiltin \o <<"f", "i", "l", "e">>>>,
       <<<<"g", "e", "t", "_", "u", "r", "l">>, AnsibleBuiltin \o <<"g", "e", "t", "_", "u", "r", "l">>>>,
       <<<<"l", "i", "n", "e", "i", "n", "f", "i", "l", "e">>, AnsibleBuiltin \o <<"l", "i", "n", "e", "i", "n", "f", "i", "l", "e">>>>,
       <<<<"r", "e", "p", "l", "a", "c", "e">>, AnsibleBuiltin \o <<"r", "e", "p", "l", "a", "c", "e">>>>,
       <<<<"s", "h", "e", "l", "l">>, AnsibleBuiltin \o <<"s", "h", "e", "l", "l">>>>,
       <<<<"s", "y", "s", "t", "e", "m", "d">>, AnsibleBuiltin \o <<"s", "y", "s", "t", "e", "m", "d">>>>,
       <<<<"t", "e", "m", "p", "l", "a", "t", "e">>, AnsibleBuiltin \o <<"t", "e", "m", "p", "l", "a", "t", "e">>>>,
       <<<<"w", "a", "i", "t", "_", "f", "o", "r">>, AnsibleBuiltin \o <<"w", "a", "i", "t", "_", "f", "o", "r">>>>,
       <<<<"m", "o", "d", "p", "r", "o", "b", "e">>, CommunityGeneral \o <<"m", "o", "d", "p", "r", "o", "b", "e">>>>,
       <<<<"s", "y", "s", "c", "t", "l">>, AnsiblePosix \o <<"s", "y", "s", "c", "t", "l">>>>,
       <<<<"t", "i", "m", "e", "z", "o", "n", "e">>, CommunityGeneral \o <<"t", "i", "m", "e", "z", "o", "n", "e">>>>,
       <<<<"u", "f", "w">>, CommunityGeneral \o <<"u", "f", "w">>>>
    >>

\* old value, new value, in the dictionary's order
TRUTHY_MAPPINGS ==
    <<
       <<<<"y", "e", "s">>, <<"t", "r", "u", "e">>>>,
       <<<<"n", "o">>, <<"f", "a", "l", "s", "e">>>>,
       <<<<"Y", "e", "s">>, <<"t", "r", "u", "e">>>>,
       <<<<"N", "o">>, <<"f", "a", "l", "s", "e">>>>,
       <<<<"Y", "E", "S">>, <<"t", "r", "u", "e">>>>,
       <<<<"N", "O">>, <<"f", "a", "l", "s", "e">>>>
    >>

\* The length of the longest run of characters of cs at position p of s.
RunLen(s, p, cs) ==
    LET stops == {i \in p..Len(s) : s[i] \notin cs}
    IN IF p > Len(s) THEN 0
       ELSE IF stops = {} THEN Len(s) - p + 1 ELSE SetMin(stops) - p

\* The length of group 1 of r'^(\s+(?:-\s+)?)(short_name:)' on line, 0 when
\* the pattern does not match.
FqcnIndentLen(line, short_name) ==
    LET key == Append(short_name, ":")
        w == RunLen(line, 1, Whitespace)
        w2 == IF w + 1 <= Len(line) /\ line[w + 1] = "-"
              THEN RunLen(line, w + 2, Whitespace) ELSE 0
    IN IF w = 0 THEN 0
       ELSE IF w2 > 0 /\ StartsAt(line, w + 2 + w2, key) THEN w + 1 + w2
       ELSE IF StartsAt(line, w + 1, key) THEN w
       ELSE 0

\* The for-loop over FQCN_MAPPINGS on one line: every pattern is matched
\* against the line as read, the last match sets lines[i].
RECURSIVE FqcnLine(_, _, _)
FqcnLine(line, k, current) ==
    IF k > Len(FQCN_MAPPINGS) THEN current
    ELSE LET n == FqcnIndentLen(line, FQCN_MAPPINGS[k][1])
         IN IF n > 0
            THEN FqcnLine(line, k + 1, SubSeq(line, 1, n) \o FQCN_MAPPINGS[k][2] \o <<":">>)
            ELSE FqcnLine(line, k + 1, current)

\* fix_fqcn(content)[0]
fix_fqcn(content) ==
    LET lines == Split(content)
    IN Join([i \in 1..Len(lines) |-> FqcnLine(lines[i], 1, lines[i])])

\* The lengths <<before, after-start>> of the match of
\*   r'^(\s+\w+:\s+)(old_val)(\s*(?:#.*)?$)'
\* on line: the length of group 1 and the position where group 3 starts;
\* <<0, 0>> when the pattern does not match.
TruthyMatch(line, old_val) ==
    LET w == RunLen(line, 1, Whitespace)
        k == RunLen(line, w + 1, WordChars)
        colon == w + k + 1
        s == RunLen(line, colon + 1, Whitespace)
        v == colon + s + 1
        a == v + Len(old_val)
        t == RunLen(line, a, Whitespace)
    IN IF /\ w >= 1
          /\ k >= 1
          /\ colon <= Len(line)
          /\ line[colon] = ":"
          /\ s >= 1
          /\ StartsAt(line, v, old_val)
          /\ (a + t > Len(line) \/ line[a + t] = "#")
       THEN <<v - 1, a>>
       ELSE <<0, 0>>

RECURSIVE TruthyLine(_, _, _)
TruthyLine(line, k, current) ==
    IF k > Len(TRUTHY_MAPPINGS) THEN current
    ELSE LET m == TruthyMatch(line, TRUTHY_MAPPINGS[k][1])
         IN IF m[1] > 0
            THEN TruthyLine(line, k + 1,
                            SubSeq(line, 1, m[1]) \o TRUTHY_MAPPINGS[k][2]
                              \o SubSeq(line, m[2], Len(line)))
            ELSE TruthyLine(line, k + 1, current)

\* fix_truthy_values(content)[0]
fix_truthy_values(content) ==
    LET lines == Split(content)
    IN Join([i \in 1..Len(lines) |-> TruthyLine(lines[i], 1, lines[i])])

\* ------------------------------------------------- fix-jinja2-spacing.py

Open2 == <<"{", "{">>

Close2 == <<"}", "}">>

\* add_spaces(match), inner being match.group(1)
add_spaces(inner) ==
    IF StartsWith(inner, <<" ">>) /\ EndsWith(inner, <<" ">>)
    THEN Open2 \o inner \o Close2
    ELSE Open2 \o <<" ">> \o Strip(inner) \o <<" ">> \o Close2

\* re.sub(r'\{\{([^}]+)\}\}', add_spaces, content) from position p
RECURSIVE JinjaSub(_, _)
JinjaSub(content, p) ==
    IF p > Len(content) THEN <<>>
    ELSE LET m == RunLen(content, p + 2, {content[i] : i \in 1..Len(content)} \ {"}"})
             hit == /\ StartsAt(content, p, Open2)
                    /\ m >= 1
                    /\ StartsAt(content, p + 2 + m, Close2)
         IN IF hit
            THEN add_spaces(SubSeq(content, p + 2, p + 1 + m))
                   \o JinjaSub(content, p + m + 4)
            ELSE <<content[p]>> \o JinjaSub(content, p + 1)

\* fix_jinja2_spacing(content)[0]
fix_jinja2_spacing(content) == JinjaSub(content, 1)

\* ------------------------------------------------------------ inputs

\* The longest document, in lines, the markdown scripts are run on.
MaxLines == 3

\* The number of runs of a fix script over the same file.
MaxRuns == 2

\* The longest document, in lines, a single function is applied to.
MaxFnLines == 3

\* The number of files of a batch run.
MaxFiles == 3

Blank == <<>>

Text == <<"t">>

Heading == <<"#", " ", "h">>

ListItem == <<"-", " ", "a">>

\* a URL whose path holds a URL, as the links of a web archive do
NestedUrl == SchemeHttp \o <<"a", "/">> \o SchemeHttp \o <<"b", "c">>

BareUrl == SchemeHttp \o <<"b">>

Link == <<"[", "t", "]", "(">> \o SchemeHttp \o <<"a", ")">>

\* The lines of the files the fix scripts are run on.
MdPool == {Blank, Text, Heading, Fence, ListItem, <<" ">>, NestedUrl}

\* The lines of the documents the single functions are applied to.
FnPool == {Blank, Text, Heading, Fence, BareUrl, Link, Link \o <<" ">> \o BareUrl,
           <<"t", " ">>, <<"t", " ", " ">>, <<"t", " ", " ", " ">>, <<"t", "\t", " ">>}

\* Every text of 1..n lines of pool: the lines joined by the terminator, so a
\* text ends with no, one or several terminators as its last lines are blank.
Texts(pool, n) == {Join(d) : d \in UNION {[1..k -> pool] : k \in 1..n}}

\* ------------------------------------------------------------- state

VARIABLES
    file,       \* the content of the markdown file on disk
    bak,        \* the content of file.bak, NoFile until fix-markdown.py writes it
    bak2,       \* the content of file.bak2, NoFile until fix-markdown-v2.py writes it
    pc,         \* where the running fix script is: idle, fixed, backed
    script,     \* the fix script of the current (or last) run
    prev,       \* the fix script of the run before it
    original,   \* process_*_file's local: the content as read
    content,    \* process_*_file's local: the content after the fixes
    changed,    \* what the last run returned
    runs,       \* the number of finished runs
    inp,        \* the argument of the function applied
    out,        \* the text it returned
    issues,     \* the issues check_file returned
    fn,         \* the function applied
    bscript,    \* the script whose main() runs over a batch
    bfiles,     \* the batch: the sorted files, each with what its I/O does
    bidx,       \* the loop position of main(), 1-based
    bdone,      \* the indices of the files whose processing returned
    bcount,     \* fixed_count / total_issues
    bpc         \* where main() is: loop, done (summary printed), raised

fileVars == <<file, bak, bak2, pc, script, prev, original, content, changed, runs>>

fnVars == <<inp, out, issues, fn>>

batchVars == <<bscript, bfiles, bidx, bdone, bcount, bpc>>

vars == <<fileVars, fnVars, batchVars>>

NoFile == <<"nofile">>

FileIdle ==
    /\ file = <<>> /\ bak = NoFile /\ bak2 = NoFile /\ pc = "off" /\ script = "none"
    /\ prev = "none" /\ original = <<>> /\ content = <<>> /\ changed = FALSE /\ runs = 0

FnIdle == inp = <<>> /\ out = <<>> /\ issues = <<>> /\ fn = "off"

BatchIdle ==
    /\ bscript = "none" /\ bfiles = <<>> /\ bidx = 1 /\ bdone = {} /\ bcount = 0
    /\ bpc = "off"

\* ------------------------------------- the fix scripts on one file

FixScripts == {"fix-markdown", "fix-markdown-v2"}

Fixes(s, c) == IF s = "fix-markdown" THEN FixMarkdown(c) ELSE FixMarkdownV2(c)

\* process_markdown_file lines 146-158 / process_file lines 132-147: read the
\* file, keep the original, apply the fixes.
ReadAndFix(s) ==
    /\ pc = "idle"
    /\ runs < MaxRuns
    /\ script' = s
    /\ prev' = script
    /\ original' = file
    /\ content' = Fixes(s, file)
    /\ pc' = "fixed"
    /\ UNCHANGED <<file, bak, bak2, changed, runs, fnVars, batchVars>>

\* WriteBackup with the transformed content saved in place of the content
\* read
WriteBackup_saves_transformed ==
    /\ pc = "fixed"
    /\ content # original
    /\ IF script = "fix-markdown"
         THEN bak' = content /\ UNCHANGED bak2
         ELSE bak2' = content /\ UNCHANGED bak
    /\ pc' = "backed"
    /\ UNCHANGED <<file, script, prev, original, content, changed, runs,
                   fnVars, batchVars>>

\* content != original: the backup is written first (lines 162-164 / 152-154)
WriteBackup ==
    /\ pc = "fixed"
    /\ content # original
    /\ IF script = "fix-markdown"
       THEN bak' = original /\ UNCHANGED bak2
       ELSE bak2' = original /\ UNCHANGED bak
    /\ pc' = "backed"
    /\ UNCHANGED <<file, script, prev, original, content, changed, runs, fnVars, batchVars>>

\* then the file is overwritten and True returned (lines 167-171 / 156-160)
WriteFixed ==
    /\ pc = "backed"
    /\ file' = content
    /\ changed' = TRUE
    /\ runs' = runs + 1
    /\ pc' = "idle"
    /\ UNCHANGED <<bak, bak2, script, prev, original, content, fnVars, batchVars>>

\* content == original: nothing is written, False returned (lines 172-174 / 161-163)
NoChange ==
    /\ pc = "fixed"
    /\ content = original
    /\ changed' = FALSE
    /\ runs' = runs + 1
    /\ pc' = "idle"
    /\ UNCHANGED <<file, bak, bak2, script, prev, original, content, fnVars, batchVars>>

Init ==
    /\ file \in Texts(MdPool, MaxLines)
    /\ bak = NoFile /\ bak2 = NoFile /\ pc = "idle" /\ script = "none" /\ prev = "none"
    /\ original = <<>> /\ content = <<>> /\ changed = FALSE /\ runs = 0
    /\ FnIdle
    /\ BatchIdle

Next ==
    \/ \E s \in FixScripts : ReadAndFix(s)
    \/ WriteBackup
    \/ WriteFixed
    \/ NoChange

Spec == Init /\ [][Next]_vars

\* ------------------------------- the functions applied to a document

ApplyCheckFile ==
    /\ fn = "none"
    /\ issues' = check_file(inp)
    /\ fn' = "check_file"
    /\ UNCHANGED <<inp, out, fileVars, batchVars>>

ApplyFixFences ==
    /\ fn = "none"
    /\ out' = fix_blank_lines_around_fences(inp)
    /\ fn' = "fix_blank_lines_around_fences"
    /\ UNCHANGED <<inp, issues, fileVars, batchVars>>

ApplyCodeFenceBlanks ==
    /\ fn = "none"
    /\ out' = fix_code_fence_blanks(inp)
    /\ fn' = "fix_code_fence_blanks"
    /\ UNCHANGED <<inp, issues, fileVars, batchVars>>

ApplyWrapBareUrls ==
    /\ fn = "none"
    /\ out' = wrap_bare_urls_careful(inp)
    /\ fn' = "wrap_bare_urls_careful"
    /\ UNCHANGED <<inp, issues, fileVars, batchVars>>

ApplyFixMarkdown ==
    /\ fn = "none"
    /\ out' = FixMarkdown(inp)
    /\ fn' = "FixMarkdown"
    /\ UNCHANGED <<inp, issues, fileVars, batchVars>>

InitFn ==
    /\ inp \in Texts(FnPool, MaxFnLines)
    /\ out = <<>> /\ issues = <<>> /\ fn = "none"
    /\ FileIdle
    /\ BatchIdle

NextFn ==
    \/ ApplyCheckFile
    \/ ApplyFixFences
    \/ ApplyCodeFenceBlanks
    \/ ApplyWrapBareUrls
    \/ ApplyFixMarkdown

SpecFn == InitFn /\ [][NextFn]_vars


\* ------------------------------ the functions applied to YAML content

\* The longest YAML content, in lines.
MaxYamlLines == 2

Apt == <<"a", "p", "t">>

Ufw == <<"u", "f", "w">>

Enabled == <<"e", "n", "a", "b", "l", "e", "d">>

YamlIndents == {<<>>, <<" ", " ">>}

YamlDashes == {<<>>, <<"-", " ">>}

YamlKeys == {Apt, Ufw, Enabled}

\* what follows the colon: nothing, module arguments, truthy values with and
\* without a comment, a value that only starts with a truthy word
YamlRests ==
    {<<>>,
     <<" ", "n", "a", "m", "e", "=", "f", "o", "o">>,
     <<" ", "y", "e", "s">>,
     <<" ", "N", "o">>,
     <<" ", "y", "e", "s", " ", " ", "#", " ", "n", "o", "t", "e">>,
     <<" ", "y", "e", "s", "#", "c">>,
     <<" ", "n", "o", " ", "x">>}

YamlLines ==
    {ind \o dash \o key \o <<":">> \o rest :
        ind \in YamlIndents, dash \in YamlDashes, key \in YamlKeys, rest \in YamlRests}

JinjaPads == {<<>>, <<" ">>, <<" ", " ">>}

JinjaInners == {<<"x">>, <<"a", "|", "b">>}

\* a template expression with each padding on each side, alone or as a value
JinjaTexts ==
    {pre \o Open2 \o l \o inner \o r \o Close2 :
        pre \in {<<>>, <<"v", ":", " ">>}, l \in JinjaPads, inner \in JinjaInners,
        r \in JinjaPads}

ApplyFixFqcn ==
    /\ fn = "none"
    /\ out' = fix_fqcn(inp)
    /\ fn' = "fix_fqcn"
    /\ UNCHANGED <<inp, issues, fileVars, batchVars>>

ApplyFixTruthy ==
    /\ fn = "none"
    /\ out' = fix_truthy_values(inp)
    /\ fn' = "fix_truthy_values"
    /\ UNCHANGED <<inp, issues, fileVars, batchVars>>

ApplyFixJinja ==
    /\ fn = "none"
    /\ out' = fix_jinja2_spacing(inp)
    /\ fn' = "fix_jinja2_spacing"
    /\ UNCHANGED <<inp, issues, fileVars, batchVars>>

InitYaml ==
    /\ inp \in Texts(YamlLines, MaxYamlLines) \cup JinjaTexts
    /\ out = <<>> /\ issues = <<>> /\ fn = "none"
    /\ FileIdle
    /\ BatchIdle

NextYaml ==
    \/ ApplyFixFqcn
    \/ ApplyFixTruthy
    \/ ApplyFixJinja

SpecYaml == InitYaml /\ [][NextYaml]_vars


\* --------------------------------------------- main() over a batch

Scripts ==
    {"check-markdown", "fix-markdown", "fix-markdown-v2", "fix-ansible-yaml",
     "fix-jinja2-spacing"}

\* What a file of the batch does to the script: its open/read succeeds or
\* raises (missing, unreadable, undecodable), its write succeeds or raises;
\* dirty says whether the script finds something in it (an issue, a change).
FileKinds == [io : {"ok", "read_error", "write_error"}, dirty : BOOLEAN]

\* check_file / process_*_file raises on f: the open or read raises, or the
\* script has a change to write and the write raises.  Nothing in the
\* scripts catches it.
Raises(s, f) ==
    \/ f.io = "read_error"
    \/ (s # "check-markdown" /\ f.dirty /\ f.io = "write_error")

\* One pass of the for-loop of main(): the file is processed and counted.
BatchProcessFile ==
    /\ bpc = "loop"
    /\ bidx <= Len(bfiles)
    /\ ~Raises(bscript, bfiles[bidx])
    /\ bdone' = bdone \cup {bidx}
    /\ bcount' = bcount + (IF bfiles[bidx].dirty THEN 1 ELSE 0)
    /\ bidx' = bidx + 1
    /\ UNCHANGED <<bscript, bfiles, bpc, fileVars, fnVars>>

\* The call raises: with no try/except in the loop the exception leaves
\* main() and the interpreter exits with a traceback.
BatchFileRaises ==
    /\ bpc = "loop"
    /\ bidx <= Len(bfiles)
    /\ Raises(bscript, bfiles[bidx])
    /\ bpc' = "raised"
    /\ UNCHANGED <<bscript, bfiles, bidx, bdone, bcount, fileVars, fnVars>>

\* The loop is over: the summary is printed.
BatchSummary ==
    /\ bpc = "loop"
    /\ bidx > Len(bfiles)
    /\ bpc' = "done"
    /\ UNCHANGED <<bscript, bfiles, bidx, bdone, bcount, fileVars, fnVars>>

InitBatch ==
    /\ bscript \in Scripts
    /\ bfiles \in UNION {[1..n -> FileKinds] : n \in 0..MaxFiles}
    /\ bidx = 1 /\ bdone = {} /\ bcount = 0 /\ bpc = "loop"
    /\ FileIdle
    /\ FnIdle

NextBatch ==
    \/ BatchProcessFile
    \/ BatchFileRaises
    \/ BatchSummary

SpecBatch == InitBatch /\ [][NextBatch]_vars


\* ------------------- the blank-line fixers and the check of fixed content

Numbered == <<"1", ".", " ", "b">>

\* The lines of the documents the blank-line fixers are applied to.
BlankLinePool == {Blank, <<" ">>, Text, Heading, Fence, ListItem, Numbered}

ApplyFixHeadings ==
    /\ fn = "none"
    /\ out' = fix_blank_lines_around_headings(inp)
    /\ fn' = "fix_blank_lines_around_headings"
    /\ UNCHANGED <<inp, issues, fileVars, batchVars>>

ApplyFixLists ==
    /\ fn = "none"
    /\ out' = fix_blank_lines_around_lists(inp)
    /\ fn' = "fix_blank_lines_around_lists"
    /\ UNCHANGED <<inp, issues, fileVars, batchVars>>

\* check-markdown.py run on the content fix-markdown.py wrote
CheckFixed ==
    /\ fn = "FixMarkdown"
    /\ issues' = check_file(out)
    /\ fn' = "checked"
    /\ UNCHANGED <<inp, out, fileVars, batchVars>>

InitBlankLines ==
    /\ inp \in Texts(BlankLinePool, MaxFnLines)
    /\ out = <<>> /\ issues = <<>> /\ fn = "none"
    /\ FileIdle
    /\ BatchIdle

NextBlankLines ==
    \/ ApplyFixHeadings
    \/ ApplyFixFences
    \/ ApplyFixLists
    \/ ApplyFixMarkdown
    \/ CheckFixed

SpecBlankLines == InitBlankLines /\ [][NextBlankLines]_vars


\* ------------------------------------------------------------ claims

\* C1 (as claimed): a fix script run twice in a row over a file changes
\* nothing the second time: the run that follows a run of the same script
\* finds content == original and returns False.
C1_FixIsIdempotent ==
    (pc = "idle" /\ runs >= 2 /\ script = prev) => ~changed

\* The part of C1 that holds: the pipeline of fix-markdown.py is idempotent.
FixMarkdownIsIdempotent ==
    (pc = "idle" /\ runs >= 2 /\ script = prev /\ script = "fix-markdown") => ~changed

EndsWithOneNewline(c) ==
    /\ Len(c) >= 1
    /\ c[Len(c)] = NL
    /\ (Len(c) >= 2 => c[Len(c) - 1] # NL)

\* C6: the content either fix pipeline produces ends with exactly one
\* newline, and so does the file once a run has finished.
C6_FixedEndsWithOneNewline ==
    /\ (pc \in {"fixed", "backed"} => EndsWithOneNewline(content))
    /\ (pc = "idle" /\ runs >= 1 => EndsWithOneNewline(file))

\* A file ending with several terminators has been read and fixed.
C6_Witness ==
    /\ pc = "fixed"
    /\ EndsWith(original, <<NL, NL>>)
    /\ content # original


\* The issue check_file reports at line ln with rule and message.
Reported(ln, rule, msg) ==
    \E k \in 1..Len(issues) :
        issues[k].line = ln /\ issues[k].rule = rule /\ issues[k].msg = msg

\* The closing fences of a document: the fence lines that end a block an
\* earlier fence line opened (the second, fourth, ... fence line).
ClosingFences(lines) ==
    {i \in 1..Len(lines) :
        /\ IsFenceFix(lines[i])
        /\ Cardinality({j \in 1..i : IsFenceFix(lines[j])}) % 2 = 0}

\* The closing fences that are not the last line and whose next line is
\* non-blank.
ClosingFencesBeforeText(lines) ==
    {i \in ClosingFences(lines) : i < Len(lines) /\ Strip(lines[i + 1]) # <<>>}

\* The number of non-empty lines among the first i.
NonEmptyUpTo(lines, i) == Cardinality({j \in 1..i : lines[j] # <<>>})

\* Line i of the input is, in the output, followed by an empty line.
BlankFollows(inl, i, outl) ==
    \E j \in 1..(Len(outl) - 1) :
        /\ outl[j] = inl[i]
        /\ NonEmptyUpTo(outl, j) = NonEmptyUpTo(inl, i)
        /\ outl[j + 1] = <<>>

C3_CheckFlagsClose ==
    fn = "check_file" =>
        \A i \in ClosingFencesBeforeText(Split(inp)) :
            Reported(i, "MD031", "Missing blank line after code fence")

\* The part of C3 that holds: both fence fixers put an empty line after a
\* closing fence that a non-blank line follows.
FixInsertsBlankAfterClose ==
    fn \in {"fix_blank_lines_around_fences", "fix_code_fence_blanks"} =>
        \A i \in ClosingFencesBeforeText(Split(inp)) :
            BlankFollows(Split(inp), i, Split(out))

\* C3 (as claimed): a closing fence that is not the last line and whose next
\* line is non-blank is reported by check_file as MD031 "missing blank line
\* after code fence" at its line number, and the fence fixers put an empty
\* line right after it.
C3_CloseFlaggedAndFixed == C3_CheckFlagsClose /\ FixInsertsBlankAfterClose

\* C5 (as claimed): on a non-empty file check_file reports "Missing trailing
\* newline" exactly when the last character is no newline and "Multiple
\* trailing newlines" exactly when the file ends with two or more.
C5_EofReportedIffNotOneNewline ==
    (fn = "check_file" /\ inp # <<>>) =>
        /\ Reported(0, "MD047", "Missing trailing newline") <=> (Last(inp) # NL)
        /\ Reported(0, "MD047", "Multiple trailing newlines") <=> EndsWith(inp, <<NL, NL>>)

\* The part of C5 that holds: a missing final newline is reported.
MissingNewlineReported ==
    (fn = "check_file" /\ inp # <<>>) =>
        (Reported(0, "MD047", "Missing trailing newline") <=> (Last(inp) # NL))

\* The number of space characters line ends with.
TrailingSpaces(line) == Len(line) - Len(RStripSet(line, {" "}))

HasLink(line) ==
    \E p \in 1..Len(line) : \E q \in (p + 1)..Len(line) :
        line[p] = "[" /\ StartsAt(line, q, <<"]", "(">> \o Http)

\* C8: wrap_bare_urls_careful returns every line that holds a markdown link
\* unchanged, inside and outside fences and whatever else the line holds, and
\* the fixes of fix-markdown.py change nothing of such a line but its
\* trailing whitespace.
C8_LinkLinesNotRewrapped ==
    /\ fn = "wrap_bare_urls_careful" =>
          /\ Len(Split(out)) = Len(Split(inp))
          /\ \A i \in 1..Len(Split(inp)) :
                 HasLink(Split(inp)[i]) => Split(out)[i] = Split(inp)[i]
    /\ fn = "FixMarkdown" =>
          SelectSeq(Split(out), HasLink) = RStripAll(SelectSeq(Split(inp), HasLink))

\* A line holding a link and a bare URL went through wrap_bare_urls_careful
\* outside a fence, in a document another line of which was wrapped.
C8_Witness ==
    /\ fn = "wrap_bare_urls_careful"
    /\ out # inp
    /\ \E i \in 1..Len(Split(inp)) :
           /\ Split(inp)[i] = Link \o <<" ">> \o BareUrl
           /\ \A j \in 1..i : ~IsFenceFix(Split(inp)[j])


\* The position after <indent><optional "- "> of a line whose module key is
\* short_name, 0 when the line has no such key: the indent is one or more
\* whitespace characters, as in the task lines of a playbook.
KeyPosition(line, short_name) ==
    LET w == RunLen(line, 1, Whitespace)
        dashed == StartsAt(line, w + 1, <<"-", " ">> \o short_name \o <<":">>)
        plain == StartsAt(line, w + 1, short_name \o <<":">>)
    IN IF w >= 1 /\ dashed THEN w + 3
       ELSE IF w >= 1 /\ plain THEN w + 1
       ELSE 0

\* The line C2 claims fix_fqcn returns for line: the key replaced, the rest
\* kept.
RECURSIVE FqcnClaimed(_, _)
FqcnClaimed(line, k) ==
    IF k > Len(FQCN_MAPPINGS) THEN line
    ELSE LET short_name == FQCN_MAPPINGS[k][1]
             p == KeyPosition(line, short_name)
         IN IF p > 0
            THEN SubSeq(line, 1, p - 1) \o FQCN_MAPPINGS[k][2]
                   \o SubSeq(line, p + Len(short_name), Len(line))
            ELSE FqcnClaimed(line, k + 1)

\* C2 (as claimed): fix_fqcn replaces the short module name in key position
\* by its fully-qualified name and keeps the rest of the line character for
\* character; every other line is returned unchanged.
C2_FqcnKeepsRest ==
    fn = "fix_fqcn" =>
        /\ Len(Split(out)) = Len(Split(inp))
        /\ \A i \in 1..Len(Split(inp)) :
               Split(out)[i] = FqcnClaimed(Split(inp)[i], 1)

\* The part of C2 that holds: a line with no known short name in key
\* position is returned unchanged, and a rewritten line starts with the
\* indent and the fully-qualified key.
FqcnOtherLinesUnchanged ==
    fn = "fix_fqcn" =>
        \A i \in 1..Len(Split(inp)) :
            LET claimed == FqcnClaimed(Split(inp)[i], 1)
            IN IF claimed = Split(inp)[i]
               THEN Split(out)[i] = Split(inp)[i]
               ELSE StartsWith(claimed, Split(out)[i])

\* The line C9 claims fix_truthy_values returns for line with old_val as its
\* value: <indent><key>: <value><whitespace and comment>, the indent of any
\* width, the comment set off by whitespace.
TruthyClaimed(line, old_val, new_val) ==
    LET w == RunLen(line, 1, Whitespace)
        k == RunLen(line, w + 1, WordChars)
        colon == w + k + 1
        s == RunLen(line, colon + 1, Whitespace)
        v == colon + s + 1
        a == v + Len(old_val)
        t == RunLen(line, a, Whitespace)
    IN IF /\ k >= 1
          /\ colon <= Len(line)
          /\ line[colon] = ":"
          /\ s >= 1
          /\ StartsAt(line, v, old_val)
          /\ (a + t > Len(line) \/ (t >= 1 /\ line[a + t] = "#"))
       THEN SubSeq(line, 1, v - 1) \o new_val \o SubSeq(line, a, Len(line))
       ELSE line

RECURSIVE TruthyClaimedAny(_, _)
TruthyClaimedAny(line, k) ==
    IF k > Len(TRUTHY_MAPPINGS) THEN line
    ELSE LET c == TruthyClaimed(line, TRUTHY_MAPPINGS[k][1], TRUTHY_MAPPINGS[k][2])
         IN IF c # line THEN c ELSE TruthyClaimedAny(line, k + 1)

\* C9 (as claimed): on a line <indent><key>: <value><comment>, whatever the
\* indentation width, fix_truthy_values replaces a yes/no value by true/false
\* and keeps everything else; a line whose value is not exactly yes/no is
\* unchanged.
C9_TruthyNormalized ==
    fn = "fix_truthy_values" =>
        /\ Len(Split(out)) = Len(Split(inp))
        /\ \A i \in 1..Len(Split(inp)) :
               Split(out)[i] = TruthyClaimedAny(Split(inp)[i], 1)

\* The {{...}} expressions of text: <<p, m>> with the braces at p and an
\* interior of m characters, none of them a closing brace.
Expressions(text) ==
    {pm \in (1..Len(text)) \X (1..Len(text)) :
        /\ StartsAt(text, pm[1], Open2)
        /\ StartsAt(text, pm[1] + 2 + pm[2], Close2)
        /\ \A i \in (pm[1] + 2)..(pm[1] + 1 + pm[2]) : text[i] # "}"}

\* C10 (as claimed): in the output of fix_jinja2_spacing every {{...}}
\* expression with a non-space character in it has exactly one space after
\* the opening braces and exactly one before the closing ones.
C10_JinjaOneSpace ==
    fn = "fix_jinja2_spacing" =>
        \A pm \in Expressions(out) :
            LET inner == SubSeq(out, pm[1] + 2, pm[1] + 1 + pm[2])
            IN (\E i \in 1..Len(inner) : inner[i] # " ") =>
                   /\ Len(inner) >= 3
                   /\ inner[1] = " " /\ inner[2] # " "
                   /\ inner[Len(inner)] = " " /\ inner[Len(inner) - 1] # " "

\* The part of C10 that holds: an expression that is not padded on both
\* sides comes out with exactly one space on each side.
JinjaUnpaddedGetOneSpace ==
    fn = "fix_jinja2_spacing" =>
        \A pre \in {<<>>, <<"v", ":", " ">>}, l \in JinjaPads, r \in JinjaPads,
           inner \in JinjaInners :
            (inp = pre \o Open2 \o l \o inner \o r \o Close2 /\ (l = <<>> \/ r = <<>>)) =>
                out = pre \o Open2 \o <<" ">> \o inner \o <<" ">> \o Close2


\* C4 (as claimed): when main() has stopped, every file whose processing
\* does not raise has been processed, those after a failing file included,
\* and the summary has been printed.
C4_BatchIsBestEffort ==
    bpc \in {"done", "raised"} =>
        /\ bpc = "done"
        /\ \A i \in 1..Len(bfiles) : ~Raises(bscript, bfiles[i]) => i \in bdone

\* The part of C4 that holds: the files before the first failing one are
\* processed, in order, and without a failing file the summary is printed.
BatchProcessesUpToFailure ==
    /\ bdone = 1..(bidx - 1)
    /\ (bpc = "raised" => Raises(bscript, bfiles[bidx]))
    /\ (bpc = "done" => bdone = 1..Len(bfiles))


\* The number of whitespace characters line ends with.
TrailingWhitespace(line) ==
    Cardinality({i \in 1..Len(line) : \A j \in i..Len(line) : line[j] \in Whitespace})

BackupOf(s) == IF s = "fix-markdown" THEN bak ELSE bak2

\* C11: the source file is overwritten only with transformed content that
\* differs from the content read, and only once the script's backup file
\* holds exactly the content read (which the source file still holds); the
\* backup is written only when the content differs, before the overwrite;
\* and when the transformed content equals the content read, the step that
\* ends the run writes neither the source file nor a backup file.
C11_BackupBeforeOverwrite ==
    [][/\ (file' # file =>
              /\ pc = "backed"
              /\ content # original
              /\ original = file
              /\ BackupOf(script) = original
              /\ file' = content
              /\ bak' = bak /\ bak2' = bak2)
       /\ ((bak' # bak \/ bak2' # bak2) =>
              /\ pc = "fixed"
              /\ content # original
              /\ original = file
              /\ file' = file
              /\ BackupOf(script)' = original
              /\ pc' = "backed"
              /\ (script = "fix-markdown" => bak2' = bak2)
              /\ (script # "fix-markdown" => bak' = bak))
       /\ ((pc = "fixed" /\ content = original) =>
              file' = file /\ bak' = bak /\ bak2' = bak2)
       /\ ((pc = "fixed" /\ content # original) =>
              pc' = "backed" /\ BackupOf(script)' = original)]_vars

\* A run of fix-markdown-v2.py has written file.bak2 and not yet the file,
\* after an earlier run of either script found nothing to change.
C11_Witness ==
    /\ pc = "backed"
    /\ script = "fix-markdown-v2"
    /\ bak2 = original
    /\ file = original
    /\ content # original
    /\ runs >= 1
    /\ ~changed


BlankLineFixers ==
    {"fix_blank_lines_around_headings", "fix_blank_lines_around_fences",
     "fix_blank_lines_around_lists"}

\* b from position k on is the lines a with empty lines inserted: every line
\* of a is there, in order and unmodified, and every other line is empty.
RECURSIVE OnlyInserted(_, _, _)
OnlyInserted(a, b, k) ==
    IF k > Len(b) THEN a = <<>>
    ELSE \/ a # <<>> /\ Head(a) = b[k] /\ OnlyInserted(Tail(a), b, k + 1)
         \/ b[k] = <<>> /\ OnlyInserted(a, b, k + 1)

\* The same, with every inserted empty line standing between two lines
\* that are not blank.
RECURSIVE InsertedApart(_, _, _)
InsertedApart(a, b, k) ==
    IF k > Len(b) THEN a = <<>>
    ELSE \/ a # <<>> /\ Head(a) = b[k] /\ InsertedApart(Tail(a), b, k + 1)
         \/ /\ b[k] = <<>>
            /\ k > 1 /\ Strip(b[k - 1]) # <<>>
            /\ k < Len(b) /\ Strip(b[k + 1]) # <<>>
            /\ InsertedApart(a, b, k + 1)

\* C12: the output of each blank-line fixer is its input with zero or more
\* empty lines inserted, no input line removed, reordered or modified, and
\* no inserted empty line stands next to a blank line.
C12_FixersOnlyInsert ==
    fn \in BlankLineFixers =>
        /\ OnlyInserted(Split(inp), Split(out), 1)
        /\ InsertedApart(Split(inp), Split(out), 1)

\* Three fences: an empty line is inserted after the closing one, and none
\* before the opening one that follows, where it would stand next to it.
C12_Witness ==
    /\ fn = "fix_blank_lines_around_fences"
    /\ Split(inp) = <<Fence, Fence, Fence>>
    /\ Split(out) = <<Fence, Fence, <<>>, Fence>>


\* No issue of the rule among the issues reported.
NoIssueOf(rule) == \A k \in 1..Len(issues) : issues[k].rule # rule

\* The scan of content fix-markdown.py produced reports no heading issue.
FixedHasNoMD022 == fn = "checked" => NoIssueOf("MD022")

\* The scan of content fix-markdown.py produced reports no fence issue.
FixedHasNoMD031 == fn = "checked" => NoIssueOf("MD031")

\* C13: the content produced by the fix-markdown.py pipeline, scanned by
\* check_file, yields no MD022 issue and no MD031 issue.
C13_FixedContentPassesCheck ==
    fn = "checked" => NoIssueOf("MD022") /\ NoIssueOf("MD031")

====
